---- MODULE Spec2Model ----
(***************************************************************************)
(* Model of the block-analysis core of miner-bitcoin                       *)
(* (src/src/block_analyzer.py): the bits -> target -> difficulty codec and *)
(* the block-statistics aggregator; and of the two RPC clients             *)
(* (src/src/bitcoin_core.py, src/src/bitcoinRPC.py), whose coroutines run  *)
(* up to each await and interleave there.                                  *)
(*                                                                         *)
(* Python values are modelled as tagged records:                           *)
(*   int    [type |-> "int",   val |-> digits]   digits: the magnitude as a *)
(*          little-endian sequence of base-256 digits, no most-significant *)
(*          zero digit (0 is <<>>); only non-negative ints are modelled    *)
(*   str    [type |-> "str",   str |-> s]        s: the string             *)
(*   None   [type |-> "NoneType"]                                          *)
(*   float  [type |-> "float", m |-> digits, e |-> k]   the IEEE-754 double *)
(*          m * 2^k with m odd (0.0 is m = <<>>, e = 0; +inf is m = <<1>>,  *)
(*          e = 1024)                                                      *)
(***************************************************************************)
EXTENDS Integers, Sequences, FiniteSets, TLC

Max2(a, b) == IF a >= b THEN a ELSE b
Min2(a, b) == IF a <= b THEN a ELSE b

(***************************************************************************)
(* Arbitrary-precision naturals (the magnitude of a Python int).           *)
(***************************************************************************)
RECURSIVE HighNonZero(_, _, _)
\* The highest index in lo..hi of a non-zero digit of s, 0 when there is none.
HighNonZero(s, lo, hi) ==
    IF lo > hi THEN 0
    ELSE IF lo = hi THEN (IF s[lo] # 0 THEN lo ELSE 0)
    ELSE LET mid == (lo + hi) \div 2
             up  == HighNonZero(s, mid + 1, hi)
         IN  IF up # 0 THEN up ELSE HighNonZero(s, lo, mid)

\* s without its most significant zero digits
Norm(s) ==
    IF Len(s) = 0 THEN <<>>
    ELSE IF s[Len(s)] # 0 THEN s
    ELSE SubSeq(s, 1, HighNonZero(s, 1, Len(s)))

RECURSIVE FromInt(_)
FromInt(n) == IF n = 0 THEN <<>> ELSE <<n % 256>> \o FromInt(n \div 256)

RECURSIVE ToIntFrom(_, _)
ToIntFrom(d, i) == IF i > Len(d) THEN 0 ELSE d[i] + 256 * ToIntFrom(d, i + 1)

\* The value of a digit sequence known to be below 2^31.
ToInt(d) == ToIntFrom(d, 1)

Digit(d, i) == IF i >= 1 /\ i <= Len(d) THEN d[i] ELSE 0

Zeros(n) == [i \in 1..n |-> 0]

RECURSIVE BitLenSmall(_)
BitLenSmall(n) == IF n = 0 THEN 0 ELSE 1 + BitLenSmall(n \div 2)

\* int.bit_length()
BitLen(d) == IF Len(d) = 0 THEN 0 ELSE 8 * (Len(d) - 1) + BitLenSmall(d[Len(d)])

RECURSIVE CmpRange(_, _, _, _)
CmpRange(a, b, lo, hi) ==
    IF lo > hi THEN 0
    ELSE IF lo = hi
    THEN (IF Digit(a, lo) > Digit(b, lo) THEN 1
          ELSE IF Digit(a, lo) < Digit(b, lo) THEN -1 ELSE 0)
    ELSE LET mid == (lo + hi) \div 2
             up  == CmpRange(a, b, mid + 1, hi)
         IN  IF up # 0 THEN up ELSE CmpRange(a, b, lo, mid)

\* -1, 0, 1 as a < b, a = b, a > b
Cmp(a, b) ==
    IF Len(a) # Len(b) THEN (IF Len(a) > Len(b) THEN 1 ELSE -1)
    ELSE CmpRange(a, b, 1, Len(a))

RECURSIVE Propagate(_, _, _, _)
\* Carry propagation over the column sums t[lo..hi] with carry cin coming in:
\* <<digits, carry out>>. The range is halved, so the nesting stays logarithmic.
Propagate(t, lo, hi, cin) ==
    IF lo > hi THEN <<<<>>, cin>>
    ELSE IF lo = hi THEN <<<<(t[lo] + cin) % 256>>, (t[lo] + cin) \div 256>>
    ELSE LET mid   == (lo + hi) \div 2
             left  == Propagate(t, lo, mid, cin)
             right == Propagate(t, mid + 1, hi, left[2])
         IN  <<left[1] \o right[1], right[2]>>

\* The digits p[1] with the last carry p[2] on top.
Joined(p) == Norm(p[1] \o FromInt(p[2]))

\* The number whose column sums (digit i weighs 256^(i-1)) are t.
Carry(t) == Joined(Propagate(t, 1, Len(t), 0))

\* a + b
Add(a, b) == Carry([i \in 1..Max2(Len(a), Len(b)) |-> Digit(a, i) + Digit(b, i)])

\* a - b for a >= b
Sub(a, b) == Carry([i \in 1..Len(a) |-> a[i] - Digit(b, i)])

\* a * c for a small c (0 <= c < 2^22)
MulSmall(a, c) == Carry([i \in 1..Len(a) |-> a[i] * c])

RECURSIVE MulRange(_, _, _, _)
\* a * (the digits lo..hi of b, at their weights)
MulRange(a, b, lo, hi) ==
    IF lo = hi
    THEN (IF b[lo] = 0 THEN <<>> ELSE Zeros(lo - 1) \o MulSmall(a, b[lo]))
    ELSE LET mid == (lo + hi) \div 2
         IN  Add(MulRange(a, b, lo, mid), MulRange(a, b, mid + 1, hi))

\* a * b
Mul(a, b) ==
    IF Len(a) = 0 \/ Len(b) = 0 THEN <<>> ELSE MulRange(a, b, 1, Len(b))

RECURSIVE Pow(_, _)
\* a ** n for n >= 0
Pow(a, n) == IF n = 0 THEN <<1>> ELSE Mul(Pow(a, n - 1), a)

RECURSIVE Pow2Small(_)
Pow2Small(r) == IF r = 0 THEN 1 ELSE 2 * Pow2Small(r - 1)

\* a << k for k >= 0
Shl(a, k) ==
    IF Len(a) = 0 THEN <<>>
    ELSE Zeros(k \div 8) \o MulSmall(a, Pow2Small(k % 8))

\* a >> k for k >= 0
Shr(a, k) ==
    LET q == k \div 8
        p == Pow2Small(k % 8)
        n == Len(a) - q
    IN  IF n <= 0 THEN <<>>
        ELSE Norm([i \in 1..n |->
                    (a[q + i] \div p) + (Digit(a, q + i + 1) % p) * (256 \div p)])

\* a mod 2^k
LowBits(a, k) ==
    LET q == k \div 8
        p == Pow2Small(k % 8)
    IN  IF Len(a) <= q THEN a
        ELSE Norm([i \in 1..(q + 1) |-> IF i <= q THEN a[i] ELSE a[i] % p])

RECURSIVE AndSmall(_, _)
AndSmall(x, y) ==
    IF x = 0 \/ y = 0 THEN 0
    ELSE (x % 2) * (y % 2) + 2 * AndSmall(x \div 2, y \div 2)

\* a & b
And(a, b) == Norm([i \in 1..Min2(Len(a), Len(b)) |-> AndSmall(a[i], b[i])])

IsOdd(a) == Len(a) > 0 /\ a[1] % 2 = 1

RECURSIVE QuotDigit(_, _, _, _)
\* The largest d in lo..hi with b * d <= r (b * lo <= r is known).
QuotDigit(r, b, lo, hi) ==
    IF lo = hi THEN lo
    ELSE LET mid == (lo + hi + 1) \div 2
         IN  IF Cmp(MulSmall(b, mid), r) <= 0
             THEN QuotDigit(r, b, mid, hi)
             ELSE QuotDigit(r, b, lo, mid - 1)

\* One step of the long division of a by b: the digit d of the quotient found
\* for the remainder r2, given <<quotient, remainder>> qr so far.
DivModDigit(b, qr, r2, d) == <<Norm(<<d>> \o qr[1]), Sub(r2, MulSmall(b, d))>>

DivModStep(b, qr, r2) == DivModDigit(b, qr, r2, QuotDigit(r2, b, 0, 255))

RECURSIVE DivModDown(_, _, _, _)
\* Long division, digit by digit from the top: the digits 1..i of a are still to
\* be brought down; qr is <<quotient, remainder>> so far. (The test of Len(qr)
\* has qr evaluated at each step rather than as one nested expression at the end.)
DivModDown(a, b, i, qr) ==
    IF i = 0 \/ Len(qr) # 2 THEN qr
    ELSE DivModDown(a, b, i - 1, DivModStep(b, qr, Norm(<<a[i]>> \o qr[2])))

\* divmod(a, b) for b > 0: <<a // b, a % b>>. The digits of a above its low
\* Len(a) - Len(b) + 1 ones are a number below b: the first remainder.
DivMod(a, b) ==
    IF Cmp(a, b) < 0 THEN <<<<>>, a>>
    ELSE DivModDown(a, b, Len(a) - Len(b) + 1,
                    <<<<>>, Shr(a, 8 * (Len(a) - Len(b) + 1))>>)

(***************************************************************************)
(* IEEE-754 doubles (Python float), non-negative values only.              *)
(***************************************************************************)
FZero == [type |-> "float", m |-> <<>>, e |-> 0]
FInf  == [type |-> "float", m |-> <<1>>, e |-> 1024]

RECURSIVE LowZeroBitsSmall(_)
LowZeroBitsSmall(n) == IF n % 2 = 1 THEN 0 ELSE 1 + LowZeroBitsSmall(n \div 2)

RECURSIVE LowZeroBits(_, _)
\* The number of zero bits below the lowest one bit of m > 0, from digit i on
\* (m is a mantissa: at most 54 bits).
LowZeroBits(m, i) ==
    IF m[i] # 0 THEN LowZeroBitsSmall(m[i]) ELSE 8 + LowZeroBits(m, i + 1)

Shifted(m, e, tz) == [type |-> "float", m |-> Shr(m, tz), e |-> e + tz]

\* The double m * 2^e (exactly representable), with its mantissa made odd.
MkFloat(m, e) ==
    IF Len(m) = 0 THEN FZero ELSE Shifted(m, e, LowZeroBits(m, 1))

\* The double m * 2^E, m at most 2^53: +inf from 2^1024 on.
Rounded(m, E) == IF BitLen(m) + E > 1024 THEN FInf ELSE MkFloat(m, E)

\* keep is the quotient without the bits dropped; c compares the dropped bits
\* with half a unit of keep's last place: round to nearest, ties to even.
RoundKeep(keep, c, sticky, E) ==
    Rounded(IF c > 0 \/ (c = 0 /\ (sticky \/ IsOdd(keep)))
            THEN Add(keep, <<1>>) ELSE keep, E)

\* (q + f) * 2^se, 0 <= f < 1 and f > 0 iff sticky, rounded to a multiple of 2^E
RoundAt(q, sticky, se, E) ==
    RoundKeep(Shr(q, E - se), Cmp(LowBits(q, E - se), Shl(<<1>>, E - se - 1)),
              sticky, E)

\* The unit in the last place of a double keeps 53 bits, and is 2^-1074 at least.
RoundDivided(qr, se) ==
    RoundAt(qr[1], Len(qr[2]) > 0, se, Max2(BitLen(qr[1]) + se - 53, -1074))

\* N / D is scaled by 2^-s, so that the quotient has 55 or 56 bits.
RoundScaled(N, D, e, s) ==
    RoundDivided(DivMod(IF s < 0 THEN Shl(N, 0 - s) ELSE N,
                        IF s > 0 THEN Shl(D, s) ELSE D), s + e)

\* The double nearest to (N / D) * 2^e, ties to even; +inf from 2^1024 on.
RoundQuot(N, D, e) ==
    IF Len(N) = 0 THEN FZero
    ELSE RoundScaled(N, D, e, BitLen(N) - BitLen(D) - 55)

\* -1, 0, 1 as x < y, x = y, x > y
FCmp(x, y) ==
    IF Len(x.m) = 0 \/ Len(y.m) = 0
    THEN (IF Len(x.m) = 0 THEN 0 ELSE 1) - (IF Len(y.m) = 0 THEN 0 ELSE 1)
    ELSE IF BitLen(x.m) + x.e > BitLen(y.m) + y.e THEN 1
    ELSE IF BitLen(x.m) + x.e < BitLen(y.m) + y.e THEN -1
    ELSE Cmp(Shl(x.m, x.e - Min2(x.e, y.e)), Shl(y.m, y.e - Min2(x.e, y.e)))

\* float + float
FAdd(x, y) ==
    IF x = FInf \/ y = FInf THEN FInf
    ELSE IF Len(x.m) = 0 THEN y
    ELSE IF Len(y.m) = 0 THEN x
    ELSE RoundQuot(Add(Shl(x.m, x.e - Min2(x.e, y.e)),
                       Shl(y.m, y.e - Min2(x.e, y.e))), <<1>>, Min2(x.e, y.e))

\* float / float for y > 0
FDiv(x, y) ==
    IF x = FInf THEN FInf
    ELSE IF y = FInf THEN FZero
    ELSE RoundQuot(x.m, y.m, x.e - y.e)

(***************************************************************************)
(* Python values, and how a call ends: a return value or a raised          *)
(* exception.                                                              *)
(***************************************************************************)
PyInt(d) == [type |-> "int", val |-> d]
PyStr(s) == [type |-> "str", str |-> s]
PyNone   == [type |-> "NoneType"]
PyTuple(items) == [type |-> "tuple", items |-> items]

Ret(v)   == [kind |-> "return", value |-> v]
Raise(x) == [kind |-> "raise", exc |-> x]

\* float(n) for an int n below 2^1024
IntToFloat(d) == RoundQuot(d, <<1>>, 0)

\* A quotient too large for a double is an OverflowError of int / int.
Finite(f) == IF f = FInf THEN Raise("OverflowError") ELSE Ret(f)

\* TrueDiv but as float division by 0.0 goes under IEEE-754: infinity.
TrueDivInf(a, b) ==
    IF Len(b) = 0 THEN Ret(FInf) ELSE Finite(RoundQuot(a, b, 0))

\* a / b on ints: the nearest double, ZeroDivisionError for b = 0
TrueDiv(a, b) ==
    IF Len(b) = 0 THEN Raise("ZeroDivisionError") ELSE Finite(RoundQuot(a, b, 0))

\* dict.get(key, default)
Get(d, key, default) == IF key \in DOMAIN d THEN d[key] ELSE default

\* The dict after d.setdefault(key, default): a missing key is inserted.
AfterSetdefault(d, key, default) ==
    [k \in DOMAIN d \cup {key} |-> IF k \in DOMAIN d THEN d[k] ELSE default]

\* The dict after d.get(key, default): as before.
AfterGet(d, key, default) == d

\* The list of dicts after a loop has called block.get(key, 0) on its elements:
\* the loops make no other call on a block and no call on the list.
blocks_read(blocks, key) ==
    [i \in 1..Len(blocks) |-> AfterGet(blocks[i], key, PyInt(<<>>))]

(***************************************************************************)
(* BlockAnalyzer: the codec.                                               *)
(***************************************************************************)
\* target_of but in a 256-bit unsigned integer: the high bits are lost.
target_of_uint256(exponent, mantissa) ==
    IF exponent - 3 < 0 THEN Raise("ValueError")
    ELSE Ret(PyInt(LowBits(Mul(mantissa, Shl(<<1>>, 8 * (exponent - 3))), 256)))

\* mantissa * (1 << (8 * (exponent - 3))): 1 << n raises ValueError (negative
\* shift count) for n < 0.
target_of(exponent, mantissa) ==
    IF exponent - 3 < 0 THEN Raise("ValueError")
    ELSE Ret(PyInt(Mul(mantissa, Shl(<<1>>, 8 * (exponent - 3)))))

\* bits >> 24 and bits & 0xFFFFFF raise TypeError unless bits is an int.
bits_to_target(bits) ==
    IF bits.type # "int" THEN Raise("TypeError")
    ELSE target_of(ToInt(Shr(bits.val, 24)), And(bits.val, FromInt(16777215)))

\* 0xFFFF * 256 ** (0x1D - 3)
max_target == Mul(FromInt(65535), Pow(FromInt(256), 29 - 3))

\* difficulty_of but with the floor division // for the true division /.
difficulty_of_floordiv(target) ==
    IF target.kind = "raise" THEN target
    ELSE IF Len(target.value.val) = 0 THEN Raise("ZeroDivisionError")
    ELSE Ret(IntToFloat(DivMod(max_target, target.value.val)[1]))

\* difficulty_of but with the quotient inverted: target / max_target.
difficulty_of_inverted(target) ==
    IF target.kind = "raise" THEN target
    ELSE TrueDiv(target.value.val, max_target)

\* max_target / target, for target as bits_to_target ended
difficulty_of(target) ==
    IF target.kind = "raise" THEN target
    ELSE TrueDiv(max_target, target.value.val)

bits_to_difficulty(bits) == difficulty_of(bits_to_target(bits))

(***************************************************************************)
(* BlockAnalyzer: the aggregator.                                          *)
(***************************************************************************)
\* difficulties.append(self.bits_to_difficulty(bits)), d being how the call of
\* bits_to_difficulty ended: st.difficulties is the list built, st.passed the
\* arguments handed to bits_to_difficulty so far, st.exc the exception that
\* ended the loop ("none": it runs on).
appended(st, bits, d) ==
    [difficulties |-> IF d.kind = "return" THEN Append(st.difficulties, d.value)
                      ELSE st.difficulties,
     passed |-> Append(st.passed, bits),
     exc    |-> IF d.kind = "raise" THEN d.exc ELSE "none"]

\* if bits is not None: ...
difficulties_step(st, bits) ==
    IF bits.type = "NoneType" THEN st
    ELSE appended(st, bits, bits_to_difficulty(bits))

RECURSIVE difficulties_loop(_, _, _)
\* The for loop of analyze_block_difficulty from block i on.
difficulties_loop(blocks, i, st) ==
    IF i > Len(blocks) \/ st.exc # "none" THEN st
    ELSE difficulties_loop(blocks, i + 1,
             difficulties_step(st, Get(blocks[i], "bits", PyInt(<<>>))))

difficulties_of(blocks) ==
    difficulties_loop(blocks, 1, [difficulties |-> <<>>, passed |-> <<>>, exc |-> "none"])

RECURSIVE FSumFrom(_, _, _)
FSumFrom(xs, i, acc) ==
    IF i > Len(xs) \/ acc = FInf THEN acc
    ELSE FSumFrom(xs, i + 1, FAdd(acc, xs[i]))

\* sum(xs) for a non-empty list of floats: 0 + xs[0] + xs[1] + ...
FSum(xs) == FSumFrom(xs, 1, FZero)

RECURSIVE FMinFrom(_, _, _)
FMinFrom(xs, i, best) ==
    IF i > Len(xs) THEN best
    ELSE FMinFrom(xs, i + 1, IF FCmp(xs[i], best) < 0 THEN xs[i] ELSE best)

\* min(xs) for a non-empty list of floats
FMin(xs) == FMinFrom(xs, 2, xs[1])

RECURSIVE FMaxFrom(_, _, _)
FMaxFrom(xs, i, best) ==
    IF i > Len(xs) THEN best
    ELSE FMaxFrom(xs, i + 1, IF FCmp(xs[i], best) > 0 THEN xs[i] ELSE best)

\* max(xs) for a non-empty list of floats
FMax(xs) == FMaxFrom(xs, 2, xs[1])

\* trend_of but from the last block-over-block delta.
trend_of_deltas(difficulties) ==
    IF Len(difficulties) > 1
       /\ FCmp(difficulties[Len(difficulties)],
               difficulties[Len(difficulties) - 1]) > 0
    THEN "increasing"
    ELSE IF Len(difficulties) > 1
            /\ FCmp(difficulties[Len(difficulties)],
                    difficulties[Len(difficulties) - 1]) < 0
    THEN "decreasing"
    ELSE "stable"

\* difficulties[-1] against difficulties[0]
trend_of(difficulties) ==
    IF Len(difficulties) > 1
       /\ FCmp(difficulties[Len(difficulties)], difficulties[1]) > 0
    THEN "increasing"
    ELSE IF Len(difficulties) > 1
            /\ FCmp(difficulties[Len(difficulties)], difficulties[1]) < 0
    THEN "decreasing"
    ELSE "stable"

\* difficulty_summary but with the last element as the current difficulty.
difficulty_summary_last(difficulties) ==
    IF Len(difficulties) = 0
    THEN [current_difficulty |-> PyNone,
          average_difficulty |-> PyNone,
          min_difficulty |-> PyNone,
          max_difficulty |-> PyNone,
          trend |-> trend_of(difficulties),
          difficulties_range |-> PyNone]
    ELSE [current_difficulty |-> difficulties[Len(difficulties)],
          average_difficulty |->
              FDiv(FSum(difficulties), IntToFloat(FromInt(Len(difficulties)))),
          min_difficulty |-> FMin(difficulties),
          max_difficulty |-> FMax(difficulties),
          trend |-> trend_of(difficulties),
          difficulties_range |->
              PyTuple(<<FMin(difficulties), FMax(difficulties)>>)]

\* The dict analyze_block_difficulty returns.
difficulty_summary(difficulties) ==
    IF Len(difficulties) = 0
    THEN [current_difficulty |-> PyNone,
          average_difficulty |-> PyNone,
          min_difficulty |-> PyNone,
          max_difficulty |-> PyNone,
          trend |-> trend_of(difficulties),
          difficulties_range |-> PyNone]
    ELSE [current_difficulty |-> difficulties[1],
          average_difficulty |->
              FDiv(FSum(difficulties), IntToFloat(FromInt(Len(difficulties)))),
          min_difficulty |-> FMin(difficulties),
          max_difficulty |-> FMax(difficulties),
          trend |-> trend_of(difficulties),
          difficulties_range |->
              PyTuple(<<FMin(difficulties), FMax(difficulties)>>)]

\* The return statement, reached when the loop ended without an exception.
difficulty_result(st) ==
    IF st.exc # "none" THEN Raise(st.exc)
    ELSE Ret(difficulty_summary(st.difficulties))

analyze_block_difficulty(blocks) == difficulty_result(difficulties_of(blocks))

RECURSIVE mining_times_loop(_, _, _)
\* The for loop of analyze_mining_time from block i on.
mining_times_loop(blocks, i, mining_times) ==
    IF i > Len(blocks) THEN mining_times
    ELSE mining_times_loop(blocks, i + 1,
             IF Get(blocks[i], "time", PyInt(<<>>)).type = "NoneType"
             THEN mining_times
             ELSE Append(mining_times, Get(blocks[i], "time", PyInt(<<>>))))

mining_times_of(blocks) == mining_times_loop(blocks, 1, <<>>)

RECURSIVE SumFrom(_, _, _)
SumFrom(xs, i, acc) ==
    IF i > Len(xs) THEN acc ELSE SumFrom(xs, i + 1, Add(acc, xs[i].val))

\* sum(xs) for a list of ints
Sum(xs) == SumFrom(xs, 1, <<>>)

RECURSIVE MinFrom(_, _, _)
MinFrom(xs, i, best) ==
    IF i > Len(xs) THEN best
    ELSE MinFrom(xs, i + 1, IF Cmp(xs[i].val, best.val) < 0 THEN xs[i] ELSE best)

\* min(xs) for a non-empty list of ints
Min(xs) == MinFrom(xs, 2, xs[1])

RECURSIVE MaxFrom(_, _, _)
MaxFrom(xs, i, best) ==
    IF i > Len(xs) THEN best
    ELSE MaxFrom(xs, i + 1, IF Cmp(xs[i].val, best.val) > 0 THEN xs[i] ELSE best)

\* max(xs) for a non-empty list of ints
Max(xs) == MaxFrom(xs, 2, xs[1])

\* mining_time_summary but with the names read as they sound: slowest the
\* maximum, fastest the minimum.
mining_time_summary_swapped(mining_times, average) ==
    IF average.kind = "raise" THEN average
    ELSE Ret([average_mining_time |-> average.value,
              slowest_mining_time |-> Max(mining_times),
              fastest_mining_time |-> Min(mining_times)])

\* The dict analyze_mining_time returns for a non-empty list, average being
\* how sum(mining_times) / len(mining_times) ended.
mining_time_summary(mining_times, average) ==
    IF average.kind = "raise" THEN average
    ELSE Ret([average_mining_time |-> average.value,
              slowest_mining_time |-> Min(mining_times),
              fastest_mining_time |-> Max(mining_times)])

\* The return statement. The times are ints (or None, or absent): sum, min and
\* max of anything else are not modelled.
mining_time_result(mining_times) ==
    IF Len(mining_times) = 0
    THEN Ret([average_mining_time |-> PyNone,
              slowest_mining_time |-> PyNone,
              fastest_mining_time |-> PyNone])
    ELSE mining_time_summary(mining_times,
             TrueDiv(Sum(mining_times), FromInt(Len(mining_times))))

analyze_mining_time(blocks) == mining_time_result(mining_times_of(blocks))

(***************************************************************************)
(* The state machine: a caller holds a compact target `bits` and a list    *)
(* `blocks` of block records, and makes one call on the BlockAnalyzer; op  *)
(* is the method called, outcome how the call ended, and passed the        *)
(* arguments bits_to_difficulty received during the call.                  *)
(***************************************************************************)
VARIABLES bits, blocks, op, outcome, passed

\* A BitcoinCoreClient: session is its _session (None or a ClientSession),
\* created the number of ClientSessions made so far, closed the ones closed,
\* posts the requests POSTed so far and response what the node answered to the
\* last of them.
VARIABLES session, created, closed, posts, response

\* rpc is a BitcoinRPCClient, a record of its fields and of what it did;
\* recent a call of get_recent_blocks under way, a record of its locals, of
\* the place it has come to and of the requests it has POSTed;
\* calls the calls that concurrent callers have under way on one
\* BlockAnalyzer, a record of its locals for each; tasks the coroutines of a
\* client that are suspended in an await, a record for each of the method it
\* runs, the await it is in and what it holds.
VARIABLES rpc, recent, calls, tasks

analyzerVars == <<bits, blocks, passed>>

coreVars == <<session, created, closed, posts, response>>

vars == <<bits, blocks, op, outcome, passed, session, created, closed, posts, response,
          rpc, recent, calls, tasks>>

\* The longest block list analysed.
MaxBlocks == 3

\* (exponent << 24) | mantissa
Compact(exponent, mantissa) ==
    PyInt(Norm([i \in 1..4 |-> IF i = 4 THEN exponent ELSE Digit(FromInt(mantissa), i)]))

\* Exponents below 3, small, around mainnet's (0x17 .. 0x1D), where the
\* difficulty becomes subnormal and then 0.0 (0xA5, 0xA6), and the largest.
Exponents == {0, 1, 2, 3, 4, 23, 28, 29, 32, 165, 166, 255}

\* 0, 1, 0x8000, 0xFFFF, 0x023C7E, 0x7FFFFF, 0x800000, 0xFFFFFF
Mantissas == {0, 1, 32768, 65535, 146558, 8388607, 8388608, 16777215}

BitsInputs == {Compact(x, m) : x \in Exponents, m \in Mantissas}

GenesisBits == Compact(29, 65535)        \* 0x1D00FFFF

Time(t) == PyInt(FromInt(t))

\* Block records: as getblock returns them (`bits` a hex string), with `bits`
\* already an int, with a null or an absent `bits` or `time`.
BlockRecords ==
    { [bits |-> GenesisBits, time |-> Time(1000)],
      [bits |-> Compact(28, 65535), time |-> Time(1600)],
      [bits |-> Compact(23, 146558)],                           \* 0x17023C7E
      [time |-> Time(1200)],
      [bits |-> PyNone, time |-> PyNone],
      [bits |-> PyStr("17023c7e"), time |-> Time(1500)] }

BlockLists == UNION {[1..n -> BlockRecords] : n \in 0..MaxBlocks}

NoOutcome == [kind |-> "none"]

NoResponse == [kind |-> "none"]

\* BitcoinCoreClient.__init__: no session yet.
InitCore ==
    /\ session = PyNone
    /\ created = 0
    /\ closed = {}
    /\ posts = <<>>
    /\ response = NoResponse

\* BitcoinRPCClient.__init__: no connection and no HTTP client yet; created
\* counts the AsyncClients made, closed holds the ones closed, and acalls the
\* calls made on a connection, each by the AsyncClient of the connection.
InitRpc ==
    rpc = [btc_con |-> PyNone, http_client |-> PyNone,
           created |-> 0, closed |-> {}, acalls |-> <<>>]

\* No call of get_recent_blocks is under way, and none has POSTed anything.
NoRecent == [pc |-> "idle", requests |-> <<>>]

\* No caller has a call under way.
NoCalls == <<>>

\* No coroutine is suspended.
NoTasks == {}

InitOthers ==
    /\ InitCore
    /\ InitRpc
    /\ recent = NoRecent
    /\ calls = NoCalls
    /\ tasks = NoTasks

Init ==
    /\ \/ bits \in BitsInputs /\ blocks = <<>>
       \/ bits = GenesisBits /\ blocks \in BlockLists
    /\ op = "none"
    /\ outcome = NoOutcome
    /\ passed = <<>>
    /\ InitOthers

CallBitsToTarget ==
    /\ op = "none"
    /\ op' = "bits_to_target"
    /\ outcome' = bits_to_target(bits)
    /\ UNCHANGED <<bits, blocks, passed>>
    /\ UNCHANGED <<coreVars, rpc, recent, calls, tasks>>

CallBitsToDifficulty ==
    /\ op = "none"
    /\ op' = "bits_to_difficulty"
    /\ outcome' = bits_to_difficulty(bits)
    /\ passed' = <<bits>>
    /\ UNCHANGED <<bits, blocks>>
    /\ UNCHANGED <<coreVars, rpc, recent, calls, tasks>>

CallAnalyzeBlockDifficulty ==
    /\ op = "none"
    /\ op' = "analyze_block_difficulty"
    /\ outcome' = analyze_block_difficulty(blocks)
    /\ passed' = difficulties_of(blocks).passed
    /\ blocks' = blocks_read(blocks, "bits")
    /\ UNCHANGED bits
    /\ UNCHANGED <<coreVars, rpc, recent, calls, tasks>>

CallAnalyzeMiningTime ==
    /\ op = "none"
    /\ op' = "analyze_mining_time"
    /\ outcome' = analyze_mining_time(blocks)
    /\ blocks' = blocks_read(blocks, "time")
    /\ UNCHANGED <<bits, passed>>
    /\ UNCHANGED <<coreVars, rpc, recent, calls, tasks>>

Next ==
    \/ CallBitsToTarget
    \/ CallBitsToDifficulty
    \/ CallAnalyzeBlockDifficulty
    \/ CallAnalyzeMiningTime

Spec == Init /\ [][Next]_vars

\* The codec alone: a caller holds a compact target and calls bits_to_target
\* or bits_to_difficulty on it.
InitCodec ==
    /\ bits \in BitsInputs
    /\ blocks = <<>>
    /\ op = "none"
    /\ outcome = NoOutcome
    /\ passed = <<>>
    /\ InitOthers

NextCodec ==
    \/ CallBitsToTarget
    \/ CallBitsToDifficulty

SpecCodec == InitCodec /\ [][NextCodec]_vars

(***************************************************************************)
(* BitcoinCoreClient: the session's lifecycle, _handle_request and the     *)
(* methods that call it. Every coroutine runs up to an await that gives    *)
(* the event loop a turn, and other coroutines of the same client run      *)
(* before it is resumed. What the node and the network answer to a POST is *)
(* the environment's choice.                                               *)
(***************************************************************************)
\* The most ClientSessions created in a behaviour, and the most requests
\* POSTed by the calls other than the ones get_recent_blocks makes.
MaxSessions == 2

MaxPosts == 2

ClientSession(id) == [type |-> "ClientSession", id |-> id]

CoreSelf == [type |-> "BitcoinCoreClient"]

\* The RPC methods _handle_request is called with directly.
CoreMethods == {"getblockcount", "getblock"}

\* The methods of the client that return what _handle_request returns.
CorePassThrough ==
    {"getblocktemplate", "getblock", "getmininginfo", "getblockheader",
     "getblockchaininfo", "getblockhash"}

\* The methods of the client that convert what _handle_request returns.
CoreConverting == {"getblockcount", "getdifficulty", "getnetworkhashps"}

\* A call: the method called, op, the RPC method it POSTs and, for
\* get_block_template, its arguments. CoreCalls are the calls of
\* _handle_request itself.
CoreCalls == {[op |-> "_handle_request", method |-> m] : m \in CoreMethods}

\* get_block_template(count, resume): the default, one block, and all but the
\* last block as they are.
TemplateArgs ==
    { [count |-> 10, resume |-> TRUE], [count |-> 1, resume |-> TRUE],
      [count |-> -1, resume |-> FALSE] }

\* The calls of the methods that call _handle_request: a method of the client
\* POSTs the RPC method of its name, BlockAnalyzer.get_block_details is
\* self.rpc_client.getblock(hash) and BlockAnalyzer.get_block_template starts
\* with self.rpc_client.getblocktemplate().
MethodCalls ==
    {[op |-> m, method |-> m] : m \in CorePassThrough \cup CoreConverting}
    \cup {[op |-> "get_block_details", method |-> "getblock"]}
    \cup {[op |-> "get_block_template", method |-> "getblocktemplate",
           count |-> a.count, resume |-> a.resume] : a \in TemplateArgs}

\* A block of a template that has every key get_block_template reads, and a
\* transaction as the node's getblocktemplate lists them.
TemplateBlock(hash) ==
    [hash |-> PyStr(hash), target |-> PyStr("023c7e"), height |-> PyInt(<<2>>),
     difficulty |-> PyInt(<<1>>), bits |-> PyStr("17023c7e"), nonce |-> PyInt(<<7>>),
     tx |-> <<PyStr("a1"), PyStr("b2")>>, size |-> PyInt(<<200>>),
     weight |-> PyInt(<<32, 3>>), time |-> PyInt(<<232, 3>>),
     version |-> PyInt(<<1>>)]

TemplateTransaction ==
    [data |-> PyStr("0100"), txid |-> PyStr("a1"), hash |-> PyStr("a1"),
     depends |-> <<>>, fee |-> PyInt(<<100>>), sigops |-> PyInt(<<4>>),
     weight |-> PyInt(<<32, 3>>)]

Template(transactions) == [type |-> "dict", transactions |-> transactions]

\* The greatest int a str of the model is the decimal numeral of.
MaxNumeral == 9

\* What a POST can come to: a decoded JSON body with a result (its `error`
\* null or absent), one with an error, a status of 400 or more
\* (raise_for_status raises ClientResponseError), another aiohttp.ClientError
\* (no connection), and the total timeout of ClientTimeout(total=timeout),
\* which aiohttp raises as asyncio.TimeoutError: not an aiohttp.ClientError.
Responses ==
    { [kind |-> "json", body |-> [result |-> PyInt(<<2>>), error |-> PyNone]],
      [kind |-> "json", body |-> [result |-> PyInt(<<2>>)]],
      [kind |-> "json", body |-> [result |-> PyNone, error |-> PyStr("Block not found")]],
      [kind |-> "json", body |-> [error |-> PyStr("Block not found")]],
      [kind |-> "status"],
      [kind |-> "ClientError"],
      [kind |-> "TimeoutError"] }

\* What the node answers to the methods that convert the result: besides
\* the above, a hash or a count as a str, a difficulty (1.5), and a block
\* template.
MethodResponses ==
    Responses \cup
    { [kind |-> "json", body |-> [result |-> PyStr("17023c7e"), error |-> PyNone]],
      [kind |-> "json", body |-> [result |-> PyStr("2"), error |-> PyNone]],
      [kind |-> "json", body |-> [result |-> MkFloat(<<3>>, -1), error |-> PyNone]],
      [kind |-> "json", body |-> [result |-> Template(<<TemplateBlock("00e1"),
                                                         TemplateBlock("00e2")>>),
                                  error |-> PyNone]],
      [kind |-> "json", body |-> [result |-> Template(<<TemplateBlock("00e1"),
                                                         TemplateTransaction>>),
                                  error |-> PyNone]] }

\* if "error" in result and result["error"] is not None: raise RuntimeError
\* return result["result"]
handle_body(body) ==
    IF "error" \in DOMAIN body /\ body.error.type # "NoneType"
    THEN Raise("RuntimeError")
    ELSE IF "result" \in DOMAIN body THEN Ret(body.result)
    ELSE Raise("KeyError")

\* The try statement of _handle_request: an aiohttp.ClientError becomes a
\* RuntimeError, any other exception goes through.
handle_response(resp) ==
    IF resp.kind = "json" THEN handle_body(resp.body)
    ELSE IF resp.kind \in {"status", "ClientError"} THEN Raise("RuntimeError")
    ELSE Raise(resp.kind)

\* int(s) for a str s: the int a decimal numeral stands for, ValueError for
\* a str that is no numeral.
int_of_str(s) ==
    IF \E n \in 0..MaxNumeral : ToString(n) = s.str
    THEN Ret(PyInt(FromInt(CHOOSE n \in 0..MaxNumeral : ToString(n) = s.str)))
    ELSE Raise("ValueError")

\* getblockcount, from what _handle_request came to:
\* if isinstance(result, (int, str)): return int(result)
\* raise RuntimeError
getblockcount(handled) ==
    IF handled.kind = "raise" THEN handled
    ELSE IF handled.value.type = "int" THEN handled
    ELSE IF handled.value.type = "str" THEN int_of_str(handled.value)
    ELSE Raise("RuntimeError")

\* getdifficulty and getnetworkhashps, from what _handle_request came to:
\* if isinstance(result, (int, float)): return float(result)
\* raise RuntimeError
getdifficulty(handled) ==
    IF handled.kind = "raise" THEN handled
    ELSE IF handled.value.type = "int" THEN Ret(IntToFloat(handled.value.val))
    ELSE IF handled.value.type = "float" THEN handled
    ELSE Raise("RuntimeError")

getnetworkhashps(handled) == getdifficulty(handled)

\* The keys of a block that get_block_template copies when resume is true.
ResumeKeys ==
    {"hash", "target", "height", "difficulty", "bits", "nonce", "tx", "size",
     "weight", "time"}

\* The dict get_block_template appends for a block when resume is true, with
\* "ntx": len(block["tx"]); KeyError for a block without one of the keys.
resumed(block) ==
    IF ResumeKeys \subseteq DOMAIN block
    THEN Ret([k \in ResumeKeys \cup {"ntx"} |->
                 IF k = "ntx" THEN PyInt(FromInt(Len(block.tx))) ELSE block[k]])
    ELSE Raise("KeyError")

RECURSIVE template_loop(_, _, _, _)
\* for block in result["transactions"]: blocks.append(...), from the i-th
\* block on, acc being the list `blocks` so far.
template_loop(transactions, i, resume, acc) ==
    IF i > Len(transactions) THEN Ret(acc)
    ELSE IF ~resume
    THEN template_loop(transactions, i + 1, resume, Append(acc, transactions[i]))
    ELSE IF resumed(transactions[i]).kind = "raise" THEN resumed(transactions[i])
    ELSE template_loop(transactions, i + 1, resume,
                       Append(acc, resumed(transactions[i]).value))

\* blocks[:count]
slice_to(acc, count) ==
    IF count >= 0 THEN SubSeq(acc, 1, Min2(count, Len(acc)))
    ELSE SubSeq(acc, 1, Max2(Len(acc) + count, 0))

\* return blocks[:count], when the loop has ended without an exception.
template_result(looped, count) ==
    IF looped.kind = "raise" THEN looped ELSE Ret(slice_to(looped.value, count))

\* get_block_template, from what getblocktemplate came to: TypeError for a
\* result that is no dict, KeyError for one without "transactions".
get_block_template(handled, count, resume) ==
    IF handled.kind = "raise" THEN handled
    ELSE IF handled.value.type # "dict" THEN Raise("TypeError")
    ELSE IF "transactions" \notin DOMAIN handled.value THEN Raise("KeyError")
    ELSE template_result(template_loop(handled.value.transactions, 1, resume, <<>>),
                         count)

\* How the call of the coroutine t ends, from what its _handle_request came
\* to.
returned(t, handled) ==
    IF t.op = "getblockcount" THEN getblockcount(handled)
    ELSE IF t.op = "getdifficulty" THEN getdifficulty(handled)
    ELSE IF t.op = "getnetworkhashps" THEN getnetworkhashps(handled)
    ELSE IF t.op = "get_block_template"
    THEN get_block_template(handled, t.count, t.resume)
    ELSE handled

\* posted but with the request sent again when it got no JSON body.
posted_with_retry(sent, request, resp) ==
    IF resp.kind = "json" THEN sent ELSE Append(sent, request)

\* The requests POSTed once the call that sent request has ended on the
\* response resp: the ones POSTed when it sent it, whatever the response.
posted(sent, request, resp) == sent

\* self._session and not self._session.closed
SessionOpen == IF session = PyNone THEN FALSE ELSE session.id \notin closed

\* __aenter__: a ClientSession is created unless one is open.
CoreAenter ==
    /\ \/ /\ ~SessionOpen
          /\ created < MaxSessions
          /\ session' = ClientSession(created + 1)
          /\ created' = created + 1
       \/ /\ SessionOpen
          /\ UNCHANGED <<session, created>>
    /\ op' = "__aenter__"
    /\ outcome' = Ret(CoreSelf)
    /\ UNCHANGED <<closed, posts, response>>
    /\ UNCHANGED <<analyzerVars, rpc, recent, calls, tasks>>

\* _session after __aexit__ closed it, were the closed session kept.
session_kept(sess) == sess

\* _session after __aexit__ closed it: self._session = None
session_after_close(sess) == PyNone

\* __aexit__ when `await self._session.close()` ends without giving the
\* event loop a turn: an open session is closed and forgotten; and __aexit__
\* on a client without an open session, which does nothing.
CoreAexit ==
    /\ \/ /\ SessionOpen
          /\ closed' = closed \cup {session.id}
          /\ session' = session_after_close(session)
       \/ /\ ~SessionOpen
          /\ UNCHANGED <<session, closed>>
    /\ op' = "__aexit__"
    /\ outcome' = Ret(PyNone)
    /\ UNCHANGED <<created, posts, response>>
    /\ UNCHANGED <<analyzerVars, rpc, recent, calls, tasks>>

\* __aexit__ up to `await self._session.close()`, which closes the open
\* session and gives the event loop a turn: _session still refers to it.
CoreAexitClose ==
    /\ SessionOpen
    /\ closed' = closed \cup {session.id}
    /\ tasks' = tasks \cup {[op |-> "__aexit__", at |-> "close", sess |-> session.id]}
    /\ UNCHANGED <<session, created, posts, response, op, outcome>>
    /\ UNCHANGED <<analyzerVars, rpc, recent, calls>>

\* __aexit__ resumed: self._session = None, whatever _session is by now.
CoreAexitResume ==
    /\ \E t \in tasks :
          /\ t.op = "__aexit__"
          /\ tasks' = tasks \ {t}
    /\ session' = session_after_close(session)
    /\ op' = "__aexit__"
    /\ outcome' = Ret(PyNone)
    /\ UNCHANGED <<created, closed, posts, response>>
    /\ UNCHANGED <<analyzerVars, rpc, recent, calls>>

\* One of the calls without a session: _handle_request raises RuntimeError,
\* nothing is sent.
HandleRequestNoSession(called) ==
    /\ session = PyNone
    /\ \E call \in called : op' = call.op
    /\ outcome' = Raise("RuntimeError")
    /\ response' = NoResponse
    /\ UNCHANGED <<session, created, closed, posts>>
    /\ UNCHANGED <<analyzerVars, rpc, recent, calls, tasks>>

\* One of the calls while _session refers to a closed session:
\* self._session.post raises RuntimeError("Session is closed"), nothing is
\* sent.
HandleRequestClosed(called) ==
    /\ session # PyNone
    /\ ~SessionOpen
    /\ \E call \in called : op' = call.op
    /\ outcome' = Raise("RuntimeError")
    /\ response' = NoResponse
    /\ UNCHANGED <<session, created, closed, posts>>
    /\ UNCHANGED <<analyzerVars, rpc, recent, calls, tasks>>

\* The coroutine of a call that has POSTed the request numbered post.
Posting(call, post) ==
    [k \in DOMAIN call \cup {"at", "post"} |->
        IF k = "at" THEN "post" ELSE IF k = "post" THEN post
        ELSE IF k = "method" THEN call.method ELSE call[k]]

\* One of the calls with an open session, up to
\* `async with self._session.post(...)`: the request is POSTed through the
\* session and the call waits for the response.
HandleRequest(called) ==
    /\ SessionOpen
    /\ Len(posts) - Len(recent.requests) < MaxPosts
    /\ \E call \in called :
          /\ posts' = Append(posts, [method |-> call.method, session |-> session.id])
          /\ tasks' = tasks \cup {Posting(call, Len(posts) + 1)}
    /\ UNCHANGED <<session, created, closed, response, op, outcome>>
    /\ UNCHANGED <<analyzerVars, rpc, recent, calls>>

CoreHandleRequestNoSession == HandleRequestNoSession(CoreCalls)

CoreHandleRequestClosed == HandleRequestClosed(CoreCalls)

CoreHandleRequest == HandleRequest(CoreCalls)

\* The same for the methods that call _handle_request.
CoreMethodNoSession == HandleRequestNoSession(MethodCalls)

CoreMethodClosed == HandleRequestClosed(MethodCalls)

CoreMethod == HandleRequest(MethodCalls)

\* The call of the coroutine t ends on the response resp.
CoreEnd(t, resp) ==
    /\ tasks' = tasks \ {t}
    /\ posts' = posted(posts, posts[t.post], resp)
    /\ response' = resp
    /\ op' = t.op
    /\ outcome' = returned(t, handle_response(resp))
    /\ UNCHANGED <<session, created, closed>>
    /\ UNCHANGED <<analyzerVars, rpc, recent, calls>>

\* A call resumed in `async with self._session.post(...)` (line 108) with
\* one of the answers: the POST has failed, or the status is 400 or more
\* (line 109), or `await response.json()` ends without giving the event loop
\* a turn.
HandleRequestAnswered(answers) ==
    \E t \in tasks :
        /\ t.at = "post"
        /\ \E resp \in answers : CoreEnd(t, resp)

CoreHandleRequestAnswered == HandleRequestAnswered(Responses)

CoreMethodAnswered == HandleRequestAnswered(MethodResponses)

\* The call resumed in `async with self._session.post(...)` with a status
\* below 400, up to `await response.json()`, which gives the event loop a
\* turn.
CoreHandleRequestRead ==
    /\ \E t \in tasks :
          /\ t.at = "post"
          /\ tasks' = (tasks \ {t}) \cup {[t EXCEPT !.at = "json"]}
    /\ UNCHANGED <<coreVars, op, outcome>>
    /\ UNCHANGED <<analyzerVars, rpc, recent, calls>>

\* A call resumed in `await response.json()` (line 110) with one of the
\* answers, the status being below 400.
HandleRequestDecoded(answers) ==
    \E t \in tasks :
        /\ t.at = "json"
        /\ \E resp \in {r \in answers : r.kind # "status"} : CoreEnd(t, resp)

CoreHandleRequestDecoded == HandleRequestDecoded(Responses)

CoreMethodDecoded == HandleRequestDecoded(MethodResponses)

InitClient ==
    /\ bits = GenesisBits
    /\ blocks = <<>>
    /\ passed = <<>>
    /\ op = "none"
    /\ outcome = NoOutcome
    /\ InitCore
    /\ InitRpc
    /\ recent = NoRecent
    /\ calls = NoCalls
    /\ tasks = NoTasks

NextCore ==
    \/ CoreAenter
    \/ CoreAexit
    \/ CoreAexitClose
    \/ CoreAexitResume
    \/ CoreHandleRequestNoSession
    \/ CoreHandleRequestClosed
    \/ CoreHandleRequest
    \/ CoreHandleRequestAnswered
    \/ CoreHandleRequestRead
    \/ CoreHandleRequestDecoded

SpecCore == InitClient /\ [][NextCore]_vars

\* The client called through its methods and through the BlockAnalyzer's.
NextCoreMethods ==
    \/ CoreAenter
    \/ CoreAexit
    \/ CoreAexitClose
    \/ CoreAexitResume
    \/ CoreMethodNoSession
    \/ CoreMethodClosed
    \/ CoreMethod
    \/ CoreMethodAnswered
    \/ CoreHandleRequestRead
    \/ CoreMethodDecoded

SpecCoreMethods == InitClient /\ [][NextCoreMethods]_vars

(***************************************************************************)
(* BitcoinRPCClient: the connection's lifecycle and the RPC methods, which *)
(* all start with _ensure_connection and wrap any exception of the call on *)
(* the connection in a RuntimeError. A coroutine runs up to an await that  *)
(* gives the event loop a turn, and other coroutines of the same client    *)
(* run before it is resumed.                                               *)
(***************************************************************************)
\* The most AsyncClients created and calls made on a connection in a behaviour.
MaxClients == 2

MaxAcalls == 2

AsyncClient(id) == [type |-> "AsyncClient", id |-> id]

\* BitcoinRPC(self._url, client=self._http_client)
BitcoinRPC(id) == [type |-> "BitcoinRPC", client |-> id]

RpcSelf == [type |-> "BitcoinRPCClient"]

RpcMethods ==
    {"acall_rpc", "getmininginfo", "getblockchaininfo", "getbestblockhash",
     "getdifficulty", "getblock"}

\* How a call on the connection ends: with a result or with an exception.
RpcAnswers == {Ret(PyStr("17023c7e")), Raise("RPCError"), Raise("TimeoutException")}

\* return self._btc_con is not None
is_connected(client) == client.btc_con # PyNone

\* _btc_con after __aexit__, were it left as it is.
btc_con_kept(con) == con

\* _btc_con after __aexit__: self._btc_con = None
btc_con_after_exit(con) == PyNone

\* try: return await conn.method(...) / except Exception: raise RuntimeError
wrapped(answer) == IF answer.kind = "raise" THEN Raise("RuntimeError") ELSE answer

\* self._http_client refers to an AsyncClient that is not closed.
HttpClientOpen ==
    IF rpc.http_client = PyNone THEN FALSE ELSE rpc.http_client.id \notin rpc.closed

\* self._btc_con is a connection on an AsyncClient that is not closed.
ConnectionOpen ==
    IF rpc.btc_con = PyNone THEN FALSE ELSE rpc.btc_con.client \notin rpc.closed

\* __aenter__: a new AsyncClient and a new BitcoinRPC on it, whatever was there.
RpcAenter ==
    /\ rpc.created < MaxClients
    /\ rpc' = [rpc EXCEPT !.http_client = AsyncClient(rpc.created + 1),
                          !.btc_con = BitcoinRPC(rpc.created + 1),
                          !.created = rpc.created + 1]
    /\ op' = "BitcoinRPCClient.__aenter__"
    /\ outcome' = Ret(RpcSelf)
    /\ UNCHANGED <<analyzerVars, coreVars, recent, calls, tasks>>

\* __aexit__ when `await self._http_client.aclose()` ends without giving the
\* event loop a turn, or on a client without an AsyncClient: the AsyncClient,
\* if any, is closed and forgotten, and so is the connection.
RpcAexit ==
    /\ rpc' = [rpc EXCEPT !.closed = IF rpc.http_client # PyNone
                                     THEN rpc.closed \cup {rpc.http_client.id}
                                     ELSE rpc.closed,
                          !.http_client = PyNone,
                          !.btc_con = btc_con_after_exit(rpc.btc_con)]
    /\ op' = "BitcoinRPCClient.__aexit__"
    /\ outcome' = Ret(PyNone)
    /\ UNCHANGED <<analyzerVars, coreVars, recent, calls, tasks>>

\* __aexit__ up to `await self._http_client.aclose()`, which closes the
\* AsyncClient and gives the event loop a turn: _http_client and _btc_con
\* still refer to it and to the connection on it.
RpcAexitClose ==
    /\ HttpClientOpen
    /\ rpc' = [rpc EXCEPT !.closed = rpc.closed \cup {rpc.http_client.id}]
    /\ tasks' = tasks \cup {[op |-> "BitcoinRPCClient.__aexit__", at |-> "aclose",
                             client |-> rpc.http_client.id]}
    /\ UNCHANGED <<op, outcome>>
    /\ UNCHANGED <<analyzerVars, coreVars, recent, calls>>

\* __aexit__ resumed: self._http_client = None and self._btc_con = None,
\* whatever they are by now.
RpcAexitResume ==
    /\ \E t \in tasks :
          /\ t.op = "BitcoinRPCClient.__aexit__"
          /\ tasks' = tasks \ {t}
    /\ rpc' = [rpc EXCEPT !.http_client = PyNone,
                          !.btc_con = btc_con_after_exit(rpc.btc_con)]
    /\ op' = "BitcoinRPCClient.__aexit__"
    /\ outcome' = Ret(PyNone)
    /\ UNCHANGED <<analyzerVars, coreVars, recent, calls>>

\* An RPC method without a connection: _ensure_connection raises RuntimeError.
RpcCallNotConnected ==
    /\ rpc.btc_con = PyNone
    /\ \E method \in RpcMethods : op' = method
    /\ outcome' = Raise("RuntimeError")
    /\ UNCHANGED <<analyzerVars, coreVars, rpc, recent, calls, tasks>>

\* An RPC method while _btc_con is a connection on a closed AsyncClient: the
\* call is made on it, the AsyncClient refuses to send with a RuntimeError,
\* and the method raises RuntimeError.
RpcCallClosed ==
    /\ rpc.btc_con # PyNone
    /\ ~ConnectionOpen
    /\ Len(rpc.acalls) < MaxAcalls
    /\ \E method \in RpcMethods :
          /\ op' = method
          /\ rpc' = [rpc EXCEPT !.acalls =
                        Append(rpc.acalls, [client |-> rpc.btc_con.client])]
    /\ outcome' = wrapped(Raise("RuntimeError"))
    /\ UNCHANGED <<analyzerVars, coreVars, recent, calls, tasks>>

\* An RPC method with a connection, up to `await conn...`: the call is made
\* on the connection and the method waits for its answer.
RpcCall ==
    /\ ConnectionOpen
    /\ Len(rpc.acalls) < MaxAcalls
    /\ \E method \in RpcMethods :
          /\ rpc' = [rpc EXCEPT !.acalls =
                        Append(rpc.acalls, [client |-> rpc.btc_con.client])]
          /\ tasks' = tasks \cup {[op |-> method, at |-> "call",
                                   acall |-> Len(rpc.acalls) + 1]}
    /\ UNCHANGED <<op, outcome>>
    /\ UNCHANGED <<analyzerVars, coreVars, recent, calls>>

\* The RPC method resumed in `await conn...`: it returns the result of the
\* call, or raises RuntimeError for its exception.
RpcCallAnswered ==
    /\ \E t \in tasks :
          /\ t.at = "call"
          /\ tasks' = tasks \ {t}
          /\ op' = t.op
    /\ \E answer \in RpcAnswers : outcome' = wrapped(answer)
    /\ UNCHANGED <<analyzerVars, coreVars, rpc, recent, calls>>

NextRpc ==
    \/ RpcAenter
    \/ RpcAexit
    \/ RpcAexitClose
    \/ RpcAexitResume
    \/ RpcCallNotConnected
    \/ RpcCallClosed
    \/ RpcCall
    \/ RpcCallAnswered

SpecRpc == InitClient /\ [][NextRpc]_vars

(***************************************************************************)
(* BlockAnalyzer.get_recent_blocks(count) through a BitcoinCoreClient, on  *)
(* a node whose best block has height tip and which answers every          *)
(* request, with an error for a height outside 0..tip. A step runs from    *)
(* one await that suspends to the next: the call POSTs its first request   *)
(* and suspends (recent.at = "post"), the response may be read (recent.at  *)
(* = "json"), and the answer resumes get_recent_blocks, which assigns it   *)
(* and runs on to the POST of its next request, or to its end. Other       *)
(* coroutines enter and leave the client and call its getblockcount        *)
(* between these steps. A local that is not assigned yet is Unbound.       *)
(***************************************************************************)
\* The greatest height of the best block and the greatest count asked for.
MaxTip == 3

MaxCount == 4

\* The most calls the other coroutines make while get_recent_blocks runs.
MaxConcurrent == 1

Unbound == [type |-> "unbound"]

\* The hash of the block at a height, and the block getblock returns for it.
HashAt(height) == [type |-> "hash", of |-> height]

BlockOf(hash) == [hash |-> hash, height |-> hash.of]

\* What the node answers to a request when its best block has height tip:
\* for a height it has no block at, an error, as a JSON body or with an HTTP
\* error status.
NodeAnswers(request, tip) ==
    IF request.method = "getblockcount"
    THEN {[kind |-> "json", body |-> [result |-> PyInt(FromInt(tip)), error |-> PyNone]]}
    ELSE IF request.method = "getblock"
    THEN {[kind |-> "json", body |-> [result |-> BlockOf(request.hash), error |-> PyNone]]}
    ELSE IF request.height \in 0..tip
    THEN {[kind |-> "json", body |-> [result |-> HashAt(request.height), error |-> PyNone]]}
    ELSE {[kind |-> "json",
           body |-> [result |-> PyNone, error |-> PyStr("Block height out of range")]],
          [kind |-> "status"]}

\* for_range but with the range one height longer at its lower end.
for_range_inclusive(r, i) ==
    IF i >= r.currenty_block - r.count
    THEN [r EXCEPT !.i = i, !.pc = "getblockhash", !.at = "call"]
    ELSE [r EXCEPT !.pc = "return", !.at = "call"]

\* for i in range(currenty_block, currenty_block - count, -1): the loop goes
\* on with i when i is in the range, and to the return statement otherwise.
for_range(r, i) ==
    IF i > r.currenty_block - r.count
    THEN [r EXCEPT !.i = i, !.pc = "getblockhash", !.at = "call"]
    ELSE [r EXCEPT !.pc = "return", !.at = "call"]

InitRecent ==
    /\ \E tip \in 0..MaxTip, count \in 0..MaxCount :
          recent = [pc |-> "getblockcount", at |-> "call",
                    tip |-> tip, count |-> count,
                    currenty_block |-> Unbound, i |-> Unbound,
                    block_hash |-> Unbound, blocks |-> Unbound,
                    requests |-> <<>>]
    /\ bits = GenesisBits
    /\ blocks = <<>>
    /\ passed = <<>>
    /\ op = "none"
    /\ outcome = NoOutcome
    /\ InitCore
    /\ InitRpc
    /\ calls = NoCalls
    /\ tasks = NoTasks

\* The request get_recent_blocks makes at the call the frame r has come to.
RecentRequest(r) ==
    IF r.pc = "getblockcount" THEN [method |-> "getblockcount"]
    ELSE IF r.pc = "getblockhash"
    THEN [method |-> "getblockhash", height |-> r.i]
    ELSE [method |-> "getblock", hash |-> r.block_hash]

\* get_recent_blocks ends on the exception exc, raised at the place pc.
RecentRaise(pc, exc) ==
    /\ recent' = [recent EXCEPT !.pc = pc, !.at = "done"]
    /\ op' = "get_recent_blocks"
    /\ outcome' = Raise(exc)

\* get_recent_blocks is called on a client that has no session: the call of
\* getblockcount raises RuntimeError, nothing is sent, and it ends on it.
RecentNoSession ==
    /\ recent.pc = "getblockcount"
    /\ recent.at = "call"
    /\ session = PyNone
    /\ RecentRaise("refused", "RuntimeError")
    /\ response' = NoResponse
    /\ UNCHANGED <<session, created, closed, posts>>
    /\ UNCHANGED <<analyzerVars, rpc, calls, tasks>>

\* get_recent_blocks is called on a client whose session is closed: post
\* raises RuntimeError.
RecentClosed ==
    /\ recent.pc = "getblockcount"
    /\ recent.at = "call"
    /\ session # PyNone
    /\ ~SessionOpen
    /\ RecentRaise("refused", "RuntimeError")
    /\ response' = NoResponse
    /\ UNCHANGED <<session, created, closed, posts>>
    /\ UNCHANGED <<analyzerVars, rpc, calls, tasks>>

\* get_recent_blocks is called on a client whose session is open:
\* currenty_block = await self.rpc_client.getblockcount(), up to the POST.
RecentGetBlockCount ==
    /\ recent.pc = "getblockcount"
    /\ recent.at = "call"
    /\ SessionOpen
    /\ posts' = Append(posts, [method |-> "getblockcount", session |-> session.id])
    /\ recent' = [recent EXCEPT !.requests = Append(@, RecentRequest(recent)),
                                !.at = "post"]
    /\ UNCHANGED <<session, created, closed, response, op, outcome>>
    /\ UNCHANGED <<analyzerVars, rpc, calls, tasks>>

\* The response has come with a good status: await response.json().
RecentRead ==
    /\ recent.pc \in {"getblockcount", "getblockhash", "getblock"}
    /\ recent.at = "post"
    /\ recent' = [recent EXCEPT !.at = "json"]
    /\ UNCHANGED <<coreVars, op, outcome>>
    /\ UNCHANGED <<analyzerVars, rpc, calls, tasks>>

\* What the node may answer to the request get_recent_blocks waits on: a
\* response whose body is being read came with a good status.
RecentAnswers ==
    {resp \in NodeAnswers(recent.requests[Len(recent.requests)], recent.tip) :
        recent.at = "post" \/ resp.kind # "status"}

\* The frame of get_recent_blocks after the call of method came to value, at
\* the statement it runs on to: the next call of the client or the return.
RecentResume(method, value) ==
    IF method = "getblockcount"
    THEN for_range([recent EXCEPT !.currenty_block = ToInt(value.val), !.blocks = <<>>],
                   ToInt(value.val))
    ELSE IF method = "getblockhash"
    THEN [recent EXCEPT !.block_hash = value, !.pc = "getblock", !.at = "call"]
    ELSE for_range([recent EXCEPT !.blocks = Append(@, value)], recent.i - 1)

\* get_recent_blocks runs on from the frame r, after the response resp: it
\* returns, or it calls the client again, which raises when it has no open
\* session and otherwise POSTs the request, where get_recent_blocks
\* suspends again.
RecentGoOn(r, resp) ==
    IF r.pc = "return"
    THEN /\ recent' = [r EXCEPT !.pc = "returned", !.at = "done"]
         /\ op' = "get_recent_blocks"
         /\ outcome' = Ret(r.blocks)
         /\ response' = resp
         /\ posts' = posts
    ELSE IF SessionOpen
    THEN /\ recent' = [r EXCEPT !.requests = Append(@, RecentRequest(r)), !.at = "post"]
         /\ posts' = Append(posts, [method |-> r.pc, session |-> session.id])
         /\ response' = resp
         /\ UNCHANGED <<op, outcome>>
    ELSE /\ recent' = [r EXCEPT !.pc = "refused", !.at = "done"]
         /\ op' = "get_recent_blocks"
         /\ outcome' = Raise("RuntimeError")
         /\ response' = NoResponse
         /\ posts' = posts

\* The answer to the request of method comes: the client's method raises,
\* and get_recent_blocks ends on it, or returns, and get_recent_blocks runs
\* on to its next await or to its end.
RecentAnswered(method) ==
    /\ recent.pc = method
    /\ recent.at \in {"post", "json"}
    /\ \E resp \in RecentAnswers :
          IF returned([op |-> method], handle_response(resp)).kind = "return"
          THEN RecentGoOn(RecentResume(method,
                              returned([op |-> method], handle_response(resp)).value),
                          resp)
          ELSE /\ RecentRaise("raised",
                              returned([op |-> method], handle_response(resp)).exc)
               /\ response' = resp
               /\ posts' = posts
    /\ UNCHANGED <<session, created, closed>>
    /\ UNCHANGED <<analyzerVars, rpc, calls, tasks>>

\* currenty_block = ...; blocks = []; then return blocks when the range is
\* empty, and else block_hash = await self.rpc_client.getblockhash(i), up
\* to the POST.
RecentGetBlockCountAnswered == RecentAnswered("getblockcount")

\* block_hash = ...; block_info = await self.rpc_client.getblock(block_hash),
\* up to the POST.
RecentGetBlockHashAnswered == RecentAnswered("getblockhash")

\* block_info = ...; blocks.append(block_info); then return blocks when the
\* range is at its end, and else the getblockhash of the next i, up to the
\* POST.
RecentGetBlockAnswered == RecentAnswered("getblock")

\* Another coroutine calls getblockcount on the same client and node.
ConcurrentCalls == {[op |-> "getblockcount", method |-> "getblockcount"]}

ConcurrentNoSession == HandleRequestNoSession(ConcurrentCalls)

ConcurrentClosed == HandleRequestClosed(ConcurrentCalls)

ConcurrentCall ==
    /\ Len(posts) - Len(recent.requests) < MaxConcurrent
    /\ HandleRequest(ConcurrentCalls)

ConcurrentAnswered ==
    HandleRequestAnswered(NodeAnswers([method |-> "getblockcount"], recent.tip))

ConcurrentDecoded ==
    HandleRequestDecoded(NodeAnswers([method |-> "getblockcount"], recent.tip))

NextRecent ==
    \/ RecentNoSession
    \/ RecentClosed
    \/ RecentGetBlockCount
    \/ RecentRead
    \/ RecentGetBlockCountAnswered
    \/ RecentGetBlockHashAnswered
    \/ RecentGetBlockAnswered
    \/ CoreAenter
    \/ CoreAexit
    \/ CoreAexitClose
    \/ CoreAexitResume
    \/ ConcurrentNoSession
    \/ ConcurrentClosed
    \/ ConcurrentCall
    \/ CoreHandleRequestRead
    \/ ConcurrentAnswered
    \/ ConcurrentDecoded

SpecRecent == InitRecent /\ [][NextRecent]_vars

(***************************************************************************)
(* Concurrent callers on one BlockAnalyzer. A call's frame holds its       *)
(* argument arg and its locals: the list acc it builds and the index i of  *)
(* the next block; a step is one pass of a loop, a return statement or a   *)
(* whole call of the codec, and the callers' steps interleave freely.      *)
(***************************************************************************)
\* The number of callers.
MaxCallers == 2

Callers == 1..MaxCallers

ConcBlockLists ==
    { <<[bits |-> GenesisBits, time |-> Time(1000)],
        [bits |-> Compact(28, 65535), time |-> Time(1600)]>>,
      <<[bits |-> Compact(28, 65535), time |-> Time(1600)],
        [time |-> Time(1200)]>> }

\* The frames of the calls as they start.
Frames ==
    {[kind |-> "analyze_block_difficulty", arg |-> bs, i |-> 1,
      acc |-> [difficulties |-> <<>>, passed |-> <<>>, exc |-> "none"],
      pc |-> "loop", result |-> NoOutcome] : bs \in ConcBlockLists}
    \cup
    {[kind |-> "analyze_mining_time", arg |-> bs, i |-> 1, acc |-> <<>>,
      pc |-> "loop", result |-> NoOutcome] : bs \in ConcBlockLists}
    \cup
    {[kind |-> "bits_to_difficulty", arg |-> Compact(28, 65535), i |-> 1,
      acc |-> <<>>, pc |-> "call", result |-> NoOutcome]}

\* The frames after a step of caller c that leaves its frame as `frame`, were
\* the list acc an attribute of the BlockAnalyzer that calls of a kind share.
stored_on_self(cs, c, frame) ==
    [k \in DOMAIN cs |->
        IF k = c THEN frame
        ELSE IF cs[k].kind = frame.kind THEN [cs[k] EXCEPT !.acc = frame.acc]
        ELSE cs[k]]

\* The frames after a step of caller c that leaves its frame as `frame`: the
\* methods assign to locals only, and a BlockAnalyzer has no attribute but
\* rpc_client.
stored(cs, c, frame) == [cs EXCEPT ![c] = frame]

\* One pass of the loop of analyze_block_difficulty.
ConcDifficultyLoop ==
    \E c \in Callers :
        /\ calls[c].kind = "analyze_block_difficulty"
        /\ calls[c].pc = "loop"
        /\ calls[c].i <= Len(calls[c].arg)
        /\ calls[c].acc.exc = "none"
        /\ calls' = stored(calls, c,
                       [calls[c] EXCEPT
                           !.acc = difficulties_loop(<<calls[c].arg[calls[c].i]>>, 1,
                                                     calls[c].acc),
                           !.i = calls[c].i + 1])
        /\ UNCHANGED <<analyzerVars, coreVars, rpc, recent, tasks, op, outcome>>

\* The end of analyze_block_difficulty: an exception of the loop, or the
\* return statement.
ConcDifficultyEnd ==
    \E c \in Callers :
        /\ calls[c].kind = "analyze_block_difficulty"
        /\ calls[c].pc = "loop"
        /\ calls[c].i > Len(calls[c].arg) \/ calls[c].acc.exc # "none"
        /\ calls' = stored(calls, c,
                       [calls[c] EXCEPT !.pc = "done",
                                        !.result = difficulty_result(calls[c].acc)])
        /\ UNCHANGED <<analyzerVars, coreVars, rpc, recent, tasks, op, outcome>>

\* One pass of the loop of analyze_mining_time.
ConcMiningLoop ==
    \E c \in Callers :
        /\ calls[c].kind = "analyze_mining_time"
        /\ calls[c].pc = "loop"
        /\ calls[c].i <= Len(calls[c].arg)
        /\ calls' = stored(calls, c,
                       [calls[c] EXCEPT
                           !.acc = mining_times_loop(<<calls[c].arg[calls[c].i]>>, 1,
                                                     calls[c].acc),
                           !.i = calls[c].i + 1])
        /\ UNCHANGED <<analyzerVars, coreVars, rpc, recent, tasks, op, outcome>>

\* The return statement of analyze_mining_time.
ConcMiningEnd ==
    \E c \in Callers :
        /\ calls[c].kind = "analyze_mining_time"
        /\ calls[c].pc = "loop"
        /\ calls[c].i > Len(calls[c].arg)
        /\ calls' = stored(calls, c,
                       [calls[c] EXCEPT !.pc = "done",
                                        !.result = mining_time_result(calls[c].acc)])
        /\ UNCHANGED <<analyzerVars, coreVars, rpc, recent, tasks, op, outcome>>

\* A call of bits_to_difficulty.
ConcCodecCall ==
    \E c \in Callers :
        /\ calls[c].kind = "bits_to_difficulty"
        /\ calls[c].pc = "call"
        /\ calls' = stored(calls, c,
                       [calls[c] EXCEPT !.pc = "done",
                                        !.result = bits_to_difficulty(calls[c].arg)])
        /\ UNCHANGED <<analyzerVars, coreVars, rpc, recent, tasks, op, outcome>>

InitConc ==
    /\ calls \in [Callers -> Frames]
    /\ bits = GenesisBits
    /\ blocks = <<>>
    /\ passed = <<>>
    /\ op = "none"
    /\ outcome = NoOutcome
    /\ InitCore
    /\ InitRpc
    /\ recent = NoRecent
    /\ tasks = NoTasks

NextConc ==
    \/ ConcDifficultyLoop
    \/ ConcDifficultyEnd
    \/ ConcMiningLoop
    \/ ConcMiningEnd
    \/ ConcCodecCall

SpecConc == InitConc /\ [][NextConc]_vars

(***************************************************************************)
(* The claims. ExponentOf and MantissaOf read a 32-bit compact target      *)
(* byte by byte; WithBits, WithTime and DifficultySequence describe the    *)
(* blocks and values an aggregate is about without going through the       *)
(* loops of the aggregator.                                                *)
(***************************************************************************)
ExponentOf(b) == Digit(b.val, 4)

MantissaOf(b) == Norm(<<Digit(b.val, 1), Digit(b.val, 2), Digit(b.val, 3)>>)

\* The block has a `bits` (a `time`) key, and its value is not null.
HasBits(block) == "bits" \in DOMAIN block /\ block.bits.type # "NoneType"

HasTime(block) == "time" \in DOMAIN block /\ block.time.type # "NoneType"

WithBits(bs) == SelectSeq(bs, HasBits)

WithTime(bs) == SelectSeq(bs, HasTime)

\* The block's `bits` as the loop reads it is not null.
ReadsBits(block) == Get(block, "bits", PyInt(<<>>)).type # "NoneType"

ReadsTime(block) == Get(block, "time", PyInt(<<>>)).type # "NoneType"

RECURSIVE DifficultiesOf(_)
\* The difficulties of the blocks bs, in order (defined when each has one).
DifficultiesOf(bs) ==
    IF bs = <<>> THEN <<>>
    ELSE <<bits_to_difficulty(Get(Head(bs), "bits", PyInt(<<>>))).value>>
             \o DifficultiesOf(Tail(bs))

\* The difficulties of the blocks whose `bits` is read as not null, in input
\* order.
DifficultySequence(bs) == DifficultiesOf(SelectSeq(bs, ReadsBits))

RECURSIVE TimesOf(_)
TimesOf(bs) ==
    IF bs = <<>> THEN <<>>
    ELSE <<Get(Head(bs), "time", PyInt(<<>>))>> \o TimesOf(Tail(bs))

\* The timestamps read as not null, in input order.
TimeSequence(bs) == TimesOf(SelectSeq(bs, ReadsTime))

\* C1: for a 32-bit bits whose exponent byte is 3 or more, bits_to_target
\* returns exactly mantissa * 2^(8*(exponent-3)), the mantissa's bytes above
\* exponent-3 zero bytes, with nothing lost up to exponent 255.
C1_TargetExact ==
    (op = "bits_to_target" /\ ExponentOf(bits) >= 3)
        => outcome = Ret(PyInt(Norm(Zeros(ExponentOf(bits) - 3) \o MantissaOf(bits))))

\* bits_to_target has returned a target of 2016 + 24 bits for 0xFFFFFFFF.
C1_Witness ==
    /\ op = "bits_to_target"
    /\ ExponentOf(bits) = 255
    /\ MantissaOf(bits) = <<255, 255, 255>>
    /\ outcome.kind = "return"
    /\ BitLen(outcome.value.val) = 2040

\* C2: analyze_block_difficulty ends as it does on the input without the
\* blocks whose `bits` is missing or null, and a list of such blocks alone
\* does not make it raise.
C2_MissingBitsSkipped ==
    op = "analyze_block_difficulty"
        => /\ outcome = analyze_block_difficulty(WithBits(blocks))
           /\ (WithBits(blocks) = <<>> => outcome.kind = "return")

\* C3: analyze_mining_time returns what it returns on the input without the
\* blocks whose `time` is missing or null.
C3_MissingTimeExcluded ==
    op = "analyze_mining_time"
        => /\ outcome.kind = "return"
           /\ outcome = analyze_mining_time(WithTime(blocks))

\* C4: for a bits whose exponent byte is below 3, bits_to_target returns the
\* mantissa shifted right by 8*(3-exponent) bits.
C4_SmallExponentShiftsRight ==
    (op = "bits_to_target" /\ ExponentOf(bits) < 3)
        => outcome = Ret(PyInt(Shr(MantissaOf(bits), 8 * (3 - ExponentOf(bits)))))

\* C5: for a bits of mantissa 0 and exponent 3 or more (target 0),
\* bits_to_difficulty raises ZeroDivisionError and returns nothing.
C5_ZeroTargetRaises ==
    (op = "bits_to_difficulty" /\ ExponentOf(bits) >= 3 /\ MantissaOf(bits) = <<>>)
        => outcome = Raise("ZeroDivisionError")

\* bits_to_difficulty has raised ZeroDivisionError for 0x1D000000.
C5_Witness ==
    /\ op = "bits_to_difficulty"
    /\ bits = Compact(29, 0)
    /\ outcome = Raise("ZeroDivisionError")

\* C6: every value analyze_block_difficulty hands to bits_to_difficulty is an
\* integer in 0..2^32-1.
C6_BitsNormalized ==
    op = "analyze_block_difficulty"
        => \A i \in 1..Len(passed) :
               passed[i].type = "int" /\ BitLen(passed[i].val) <= 32

\* The trend of a difficulty sequence: its last element against its first.
TrendOf(ds) ==
    IF Len(ds) <= 1 THEN "stable"
    ELSE IF FCmp(ds[Len(ds)], ds[1]) > 0 THEN "increasing"
    ELSE IF FCmp(ds[Len(ds)], ds[1]) < 0 THEN "decreasing"
    ELSE "stable"

\* C7: the trend of a returned summary is "increasing" when the last element
\* of the difficulty sequence is above the first, "decreasing" when it is
\* below, "stable" otherwise and for sequences of 0 or 1 elements.
C7_TrendLastAgainstFirst ==
    (op = "analyze_block_difficulty" /\ outcome.kind = "return")
        => outcome.value.trend = TrendOf(DifficultySequence(blocks))

\* The last of three difficulties is above the first and below the second.
UpThenDown(ds) ==
    Len(ds) = 3 /\ FCmp(ds[3], ds[1]) > 0 /\ FCmp(ds[3], ds[2]) < 0

\* A summary with trend "increasing" has been returned for three difficulties
\* of which the last is above the first and below the second.
C7_Witness ==
    /\ op = "analyze_block_difficulty"
    /\ outcome.kind = "return"
    /\ UpThenDown(DifficultySequence(blocks))
    /\ outcome.value.trend = "increasing"

\* The fields of the summary s for the non-empty difficulty sequence ds.
SummaryOf(s, ds) ==
    /\ s.current_difficulty = ds[1]
    /\ s.average_difficulty = FDiv(FSum(ds), IntToFloat(FromInt(Len(ds))))
    /\ \E i \in 1..Len(ds) : s.min_difficulty = ds[i]
    /\ \A i \in 1..Len(ds) : FCmp(s.min_difficulty, ds[i]) <= 0
    /\ \E i \in 1..Len(ds) : s.max_difficulty = ds[i]
    /\ \A i \in 1..Len(ds) : FCmp(s.max_difficulty, ds[i]) >= 0
    /\ s.difficulties_range = PyTuple(<<s.min_difficulty, s.max_difficulty>>)

\* C8: a summary returned for a non-empty difficulty sequence has current =
\* the first element, average = sum/count, min = the least and max = the
\* greatest element, and range = (min, max).
C8_SummaryFields ==
    (op = "analyze_block_difficulty" /\ outcome.kind = "return"
        /\ SelectSeq(blocks, ReadsBits) # <<>>)
        => SummaryOf(outcome.value, DifficultySequence(blocks))

\* A summary has been returned for three blocks of which the first has neither
\* the least nor the greatest nor the last difficulty.
C8_Witness ==
    /\ op = "analyze_block_difficulty"
    /\ outcome.kind = "return"
    /\ Len(blocks) = 3
    /\ outcome.value.current_difficulty # outcome.value.min_difficulty
    /\ outcome.value.current_difficulty # outcome.value.max_difficulty
    /\ outcome.value.current_difficulty = bits_to_difficulty(blocks[1].bits).value
    /\ outcome.value.current_difficulty # bits_to_difficulty(blocks[3].bits).value

\* C9: for an input whose blocks are all skipped (`bits` missing or null), the
\* empty input among them, analyze_block_difficulty returns a summary of which
\* current, average, min, max and range are None.
C9_NothingComputedAllAbsent ==
    (op = "analyze_block_difficulty" /\ WithBits(blocks) = <<>>)
        => /\ outcome.kind = "return"
           /\ outcome.value.current_difficulty = PyNone
           /\ outcome.value.average_difficulty = PyNone
           /\ outcome.value.min_difficulty = PyNone
           /\ outcome.value.max_difficulty = PyNone
           /\ outcome.value.difficulties_range = PyNone

\* The fields of the result r for the non-empty list ts of timestamps.
MiningTimesOf(r, ts) ==
    /\ r.average_mining_time = RoundQuot(Sum(ts), FromInt(Len(ts)), 0)
    /\ \E i \in 1..Len(ts) : r.slowest_mining_time = ts[i]
    /\ \A i \in 1..Len(ts) : Cmp(r.slowest_mining_time.val, ts[i].val) <= 0
    /\ \E i \in 1..Len(ts) : r.fastest_mining_time = ts[i]
    /\ \A i \in 1..Len(ts) : Cmp(r.fastest_mining_time.val, ts[i].val) >= 0

\* C10: analyze_mining_time returns the mean of the collected timestamps as
\* average, their minimum as slowest and their maximum as fastest, and all
\* three None when none is collected; it does not raise.
C10_MiningTimeFields ==
    op = "analyze_mining_time"
        => /\ outcome.kind = "return"
           /\ IF Len(TimeSequence(blocks)) = 0
              THEN outcome.value = [average_mining_time |-> PyNone,
                                    slowest_mining_time |-> PyNone,
                                    fastest_mining_time |-> PyNone]
              ELSE MiningTimesOf(outcome.value, TimeSequence(blocks))

\* The result for the timestamps 1000, 1600, 1200: slowest 1000, fastest 1600,
\* average 1266.666..., the double 5570858914065067 * 2^-42.
C10_Witness ==
    /\ op = "analyze_mining_time"
    /\ TimeSequence(blocks) = <<Time(1000), Time(1600), Time(1200)>>
    /\ outcome.kind = "return"
    /\ outcome.value.slowest_mining_time = Time(1000)
    /\ outcome.value.fastest_mining_time = Time(1600)
    /\ outcome.value.average_mining_time =
           [type |-> "float", m |-> <<171, 170, 170, 170, 170, 202, 19>>, e |-> -42]

\* |a - b|
AbsDiff(a, b) == IF Cmp(a, b) >= 0 THEN Sub(a, b) ELSE Sub(b, a)

\* The unit in the last place of the double f is 2^UlpExp(f).
UlpExp(f) == IF Len(f.m) = 0 THEN -1074 ELSE Max2(BitLen(f.m) + f.e - 53, -1074)

\* The double f is within half a unit in its last place of N / D:
\* 2 * |N - f * D| <= ulp(f) * D, both sides scaled by 2^k to integers.
NearestDouble(f, N, D) ==
    LET k == Max2(0, 0 - UlpExp(f))
    IN  /\ BitLen(f.m) <= 53
        /\ Cmp(Shl(AbsDiff(Shl(N, k), Mul(Shl(f.m, f.e + k), D)), 1),
               Shl(D, UlpExp(f) + k)) <= 0

\* C11: bits_to_difficulty returns 1.0 for bits = 0x1D00FFFF, and for every
\* bits of exponent 3 or more and non-zero mantissa the double nearest to
\* (0xFFFF * 2^(8*26)) / (mantissa * 2^(8*(exponent-3))).
C11_DifficultyIsQuotient ==
    (op = "bits_to_difficulty" /\ ExponentOf(bits) >= 3 /\ MantissaOf(bits) # <<>>)
        => /\ outcome.kind = "return"
           /\ outcome.value.type = "float"
           /\ NearestDouble(outcome.value,
                            Shl(<<255, 255>>, 8 * 26),
                            Shl(MantissaOf(bits), 8 * (ExponentOf(bits) - 3)))
           /\ (bits = Compact(29, 65535)
                  => outcome.value = [type |-> "float", m |-> <<1>>, e |-> 0])

\* bits_to_difficulty has returned 1.0 for 0x1D00FFFF.
C11_Witness ==
    /\ op = "bits_to_difficulty"
    /\ bits = Compact(29, 65535)
    /\ outcome = Ret([type |-> "float", m |-> <<1>>, e |-> 0])

\* C12: for a fixed exponent of 3 or more and non-zero mantissas m1 < m2, the
\* difficulty returned for the bits built from m1 is greater than or equal to
\* the difficulty of the bits built from m2.
C12_DifficultyMonotonic ==
    (op = "bits_to_difficulty" /\ ExponentOf(bits) >= 3 /\ MantissaOf(bits) # <<>>)
        => /\ outcome.kind = "return"
           /\ \A m2 \in Mantissas :
                 Cmp(MantissaOf(bits), FromInt(m2)) < 0
                    => FCmp(outcome.value,
                            bits_to_difficulty(Compact(ExponentOf(bits), m2)).value) >= 0

\* bits_to_difficulty has returned, for 0x1D008000, more than the difficulty
\* of 0x1D00FFFF and of 0x1DFFFFFF.
C12_Witness ==
    /\ op = "bits_to_difficulty"
    /\ bits = Compact(29, 32768)
    /\ outcome.kind = "return"
    /\ FCmp(outcome.value, bits_to_difficulty(Compact(29, 65535)).value) > 0
    /\ FCmp(outcome.value, bits_to_difficulty(Compact(29, 16777215)).value) > 0

\* C13: a call of analyze_block_difficulty or analyze_mining_time, returning
\* or raising, leaves the block list as it was: the same length and order,
\* and in every block the same keys and values.
C13_InputNotMutated ==
    [][(op' \in {"analyze_block_difficulty", "analyze_mining_time"})
          => blocks' = blocks]_vars

\* analyze_block_difficulty has raised on three blocks, of which one has no
\* `bits` key and still has none.
C13_Witness ==
    /\ op = "analyze_block_difficulty"
    /\ outcome.kind = "raise"
    /\ Len(blocks) = 3
    /\ \E i \in 1..3 : DOMAIN blocks[i] = {"time"}

\* The response is a failure: no JSON body, or a body with a non-null error.
Failed(resp) ==
    IF resp.kind = "json"
    THEN "error" \in DOMAIN resp.body /\ resp.body.error # PyNone
    ELSE TRUE

\* The coroutines that the step suspends: the ones new in tasks.
Suspended == tasks' \ tasks

\* The step resumes the coroutine t and t ends.
Ended(t) == t \in tasks /\ tasks' = tasks \ {t}

\* The step is a call that runs from its start to its end, no coroutine
\* suspended or resumed.
Straight == tasks' = tasks

\* A call POSTs exactly one request: when it starts, after the requests
\* POSTed before and through the session of the client; a step in which no
\* call starts POSTs nothing.
OnePost ==
    /\ \A t \in Suspended :
          t.at = "post" => /\ Len(posts') = Len(posts) + 1
                           /\ SubSeq(posts', 1, Len(posts)) = posts
                           /\ t.post = Len(posts')
                           /\ posts'[t.post].session = session.id
    /\ (\A t \in Suspended : t.at # "post") => posts' = posts

\* C14 as claimed: a call of _handle_request on a client that has an open
\* session POSTs exactly one request and then returns the `result` of the
\* response or, on any failure, raises RuntimeError.
C14_ReturnsOrRuntimeError ==
    [][/\ OnePost
       /\ \A t \in tasks :
             (t.op = "_handle_request" /\ Ended(t))
                => IF Failed(response') THEN outcome' = Raise("RuntimeError")
                   ELSE outcome' = Ret(response'.body.result)]_vars

\* C14, amended: a call of _handle_request on a client that has an open
\* session POSTs exactly one request and then returns the `result` of the
\* response, or raises RuntimeError on an aiohttp.ClientError (HTTP status,
\* connection) and on a non-null `error`, or lets the TimeoutError of the
\* total timeout through as it is; a failed call returns nothing and is not
\* sent again.
C14_ReturnsOrRaises ==
    [][/\ OnePost
       /\ \A t \in tasks :
             (t.op = "_handle_request" /\ Ended(t))
                => IF ~Failed(response') THEN outcome' = Ret(response'.body.result)
                   ELSE IF response'.kind = "TimeoutError"
                   THEN outcome' = Raise("TimeoutError")
                   ELSE outcome' = Raise("RuntimeError")]_vars

\* While a first call of _handle_request waits for its response, a second
\* one has run into the timeout: two requests were POSTed in all and
\* TimeoutError was raised.
C14_Witness ==
    /\ op = "_handle_request"
    /\ response.kind = "TimeoutError"
    /\ outcome = Raise("TimeoutError")
    /\ Len(posts) = 2
    /\ \E t \in tasks : t.at = "post" /\ t.post = 1

\* The step belongs to an __aenter__ or an __aexit__ of the
\* BitcoinCoreClient: one that runs from start to end, or an __aexit__
\* suspended or resumed.
SessionStep ==
    \/ Straight /\ op' \in {"__aenter__", "__aexit__"}
    \/ \E t \in Suspended : t.op = "__aexit__"
    \/ \E t \in tasks : t.op = "__aexit__" /\ Ended(t)

\* C16: a request is sent only by a call that starts on a client with an
\* open session, and through that session; a call that starts on a client
\* without a session, or whose session is closed, raises RuntimeError and
\* sends nothing; __aenter__ leaves the client with an open session, a new
\* one unless one was open; __aexit__ closes the open session, forgets the
\* session when it ends and leaves the client without an open session; no
\* step of a call changes the session.
C16_SessionLifecycle ==
    [][/\ ~SessionStep => UNCHANGED <<session, closed>>
       /\ posts' # posts
            => /\ SessionOpen
               /\ posts'[Len(posts')].session = session.id
               /\ UNCHANGED <<session, closed>>
       /\ \A t \in Suspended : t.at = "post" => SessionOpen /\ posts' # posts
       /\ (op' = "_handle_request" /\ Straight)
            => /\ ~SessionOpen
               /\ posts' = posts
               /\ outcome' = Raise("RuntimeError")
               /\ UNCHANGED <<session, closed>>
       /\ (op' = "__aenter__" /\ Straight)
            => /\ SessionOpen'
               /\ ~SessionOpen => session'.id > created
               /\ SessionOpen => session' = session
               /\ posts' = posts
       /\ (op' = "__aexit__" /\ Straight)
            => /\ IF SessionOpen
                  THEN session' = PyNone /\ session.id \in closed'
                  ELSE UNCHANGED <<session, closed>>
               /\ ~SessionOpen'
               /\ posts' = posts
       /\ \A t \in Suspended :
             t.op = "__aexit__"
                => /\ SessionOpen
                   /\ t.sess = session.id
                   /\ t.sess \in closed'
       /\ \A t \in tasks :
             (t.op = "__aexit__" /\ Ended(t))
                => /\ session' = PyNone
                   /\ t.sess \in closed'
                   /\ posts' = posts]_vars

\* After an __aenter__, a call that still waits for its response, an
\* __aexit__ and a second __aenter__, a call of _handle_request has sent its
\* request through the second session and returned the result.
C16_Witness ==
    /\ op = "_handle_request"
    /\ outcome.kind = "return"
    /\ closed = {1}
    /\ session = ClientSession(2)
    /\ Len(posts) = 2
    /\ posts[2].session = 2
    /\ \E t \in tasks : t.at = "post" /\ t.post = 1 /\ posts[1].session = 1

\* The step ends an __aenter__ or an __aexit__ of the BitcoinRPCClient.
LifecycleEnds ==
    \/ /\ Straight
       /\ op' \in {"BitcoinRPCClient.__aenter__", "BitcoinRPCClient.__aexit__"}
    \/ \E t \in tasks : t.op = "BitcoinRPCClient.__aexit__" /\ Ended(t)

\* C17: __aenter__ leaves the BitcoinRPCClient connected; __aexit__ leaves
\* it not connected, its connection and its HTTP client None and the HTTP
\* client it had closed; no other step changes is_connected or the HTTP
\* client; an RPC method called when is_connected is false raises
\* RuntimeError without a call on a connection.
C17_ConnectionLifecycle ==
    [][/\ (op' = "BitcoinRPCClient.__aenter__" /\ Straight) => is_connected(rpc')
       /\ (op' = "BitcoinRPCClient.__aexit__" /\ Straight)
            => /\ ~is_connected(rpc')
               /\ rpc'.btc_con = PyNone
               /\ rpc'.http_client = PyNone
               /\ rpc.http_client # PyNone => rpc.http_client.id \in rpc'.closed
       /\ \A t \in tasks :
             (t.op = "BitcoinRPCClient.__aexit__" /\ Ended(t))
                => /\ ~is_connected(rpc')
                   /\ rpc'.btc_con = PyNone
                   /\ rpc'.http_client = PyNone
                   /\ t.client \in rpc'.closed
       /\ ~LifecycleEnds
            => /\ is_connected(rpc') = is_connected(rpc)
               /\ rpc'.http_client = rpc.http_client
       /\ (op' \in RpcMethods /\ Straight /\ ~is_connected(rpc))
            => outcome' = Raise("RuntimeError") /\ rpc'.acalls = rpc.acalls
       /\ rpc'.acalls # rpc.acalls => is_connected(rpc)]_vars

\* After an __aenter__, a call and an __aexit__, getblock has raised
\* RuntimeError on the client, which is not connected and has closed its
\* HTTP client; no coroutine is suspended.
C17_Witness ==
    /\ op = "getblock"
    /\ outcome = Raise("RuntimeError")
    /\ ~is_connected(rpc)
    /\ rpc.http_client = PyNone
    /\ rpc.closed = {1}
    /\ Len(rpc.acalls) = 1
    /\ tasks = {}

RECURSIVE HeightsAsked(_)
\* The heights asked of getblockhash, in the order of the requests.
HeightsAsked(requests) ==
    IF requests = <<>> THEN <<>>
    ELSE IF Head(requests).method = "getblockhash"
    THEN <<Head(requests).height>> \o HeightsAsked(Tail(requests))
    ELSE HeightsAsked(Tail(requests))

\* The first request is getblockcount; after it, the requests go in pairs, a
\* getblockhash and then the getblock of the hash of that height.
OneAfterAnother(requests) ==
    \A k \in 1..Len(requests) :
        IF k = 1 THEN requests[k].method = "getblockcount"
        ELSE IF k % 2 = 0 THEN requests[k].method = "getblockhash"
        ELSE /\ requests[k].method = "getblock"
             /\ requests[k].hash = HashAt(requests[k - 1].height)

\* C18 as stated: get_recent_blocks(count) on a node with best height h
\* asks, one request after the other, for the heights h, h-1, ..., h-count+1,
\* for no negative height, and, unless the client has no open session to
\* call, returns count blocks, the newest first.
C18_RecentBlocks ==
    /\ OneAfterAnother(recent.requests)
    /\ \A k \in 1..Len(HeightsAsked(recent.requests)) :
          /\ k <= recent.count
          /\ HeightsAsked(recent.requests)[k] = recent.tip - k + 1
          /\ HeightsAsked(recent.requests)[k] >= 0
    /\ recent.pc # "raised"
    /\ recent.pc = "returned"
          => /\ Len(recent.blocks) = recent.count
             /\ \A k \in 1..Len(recent.blocks) :
                   recent.blocks[k].height = recent.tip - k + 1
             /\ op = "get_recent_blocks" => outcome = Ret(recent.blocks)

\* get_recent_blocks has got the answer to its getblockcount, and has
\* assigned currenty_block and blocks.
Counted == recent.pc # "getblockcount" /\ recent.requests # <<>>

\* The blocks get_recent_blocks has received are those of the heights from
\* the tip down, the newest first.
NewestFirst ==
    \A k \in 1..Len(recent.blocks) :
        recent.blocks[k] = BlockOf(HashAt(recent.tip - k + 1))

\* C18: get_recent_blocks(count) on a node with best height h asks, one
\* request after the other, getblockhash and then getblock of its answer
\* for each height before the next, for the heights h, h-1, ... down to
\* h-count+1 and at the lowest -1: it has no request under way but its last,
\* it returns only with count <= h+1, and then the count blocks h, ...,
\* h-count+1, the newest first, and the node's answer makes it raise only
\* with count > h+1, and then RuntimeError, on the request for the height -1
\* that follows the blocks h, ..., 0.
C18_RecentBlocksInRange ==
    /\ OneAfterAnother(recent.requests)
    /\ \A k \in 1..Len(HeightsAsked(recent.requests)) :
          /\ k <= recent.count
          /\ HeightsAsked(recent.requests)[k] = recent.tip - k + 1
          /\ HeightsAsked(recent.requests)[k] >= -1
    /\ ~Counted => Len(recent.requests) <= 1
    /\ Counted
          => /\ NewestFirst
             /\ Len(recent.requests) >= 1 + 2 * Len(recent.blocks)
             /\ Len(recent.requests) <= 3 + 2 * Len(recent.blocks)
             /\ recent.at \in {"post", "json"}
                   => Len(recent.requests) > 1 + 2 * Len(recent.blocks)
    /\ recent.pc = "returned"
          => /\ recent.count <= recent.tip + 1
             /\ Len(recent.blocks) = recent.count
             /\ Len(recent.requests) = 1 + 2 * recent.count
             /\ op = "get_recent_blocks" => outcome = Ret(recent.blocks)
    /\ recent.pc = "raised"
          => /\ recent.count > recent.tip + 1
             /\ Len(recent.blocks) = recent.tip + 1
             /\ recent.requests[Len(recent.requests)] =
                   [method |-> "getblockhash", height |-> -1]
             /\ op = "get_recent_blocks" => outcome = Raise("RuntimeError")

\* get_recent_blocks(3) has returned the blocks 2, 1 and 0 of a node with
\* best height 2 after its seven requests, among which another coroutine's
\* getblockcount went through the client.
C18_Witness ==
    /\ recent.pc = "returned"
    /\ recent.tip = 2
    /\ recent.count = 3
    /\ Len(recent.requests) = 7
    /\ Len(posts) = 8
    /\ posts[4].method = "getblockcount"
    /\ op = "get_recent_blocks"
    /\ outcome = Ret(<<BlockOf(HashAt(2)), BlockOf(HashAt(1)), BlockOf(HashAt(0))>>)

\* The outcome of the call of a frame, made alone.
Alone(frame) ==
    IF frame.kind = "analyze_block_difficulty" THEN analyze_block_difficulty(frame.arg)
    ELSE IF frame.kind = "analyze_mining_time" THEN analyze_mining_time(frame.arg)
    ELSE bits_to_difficulty(frame.arg)

\* C15: whatever the interleaving of the callers' steps, a call that has
\* ended has the outcome of the same call made alone on its argument.
C15_CallsIndependent ==
    \A c \in Callers : calls[c].pc = "done" => calls[c].result = Alone(calls[c])

\* Caller 1 has ended analyze_block_difficulty with a summary while caller 2,
\* in the same method on another list, is one block into its loop.
C15_Witness ==
    /\ calls[1].kind = "analyze_block_difficulty"
    /\ calls[1].pc = "done"
    /\ calls[1].result.kind = "return"
    /\ calls[2].kind = "analyze_block_difficulty"
    /\ calls[2].arg # calls[1].arg
    /\ calls[2].pc = "loop"
    /\ calls[2].i = 2
    /\ Len(calls[2].acc.difficulties) = 1

====
